---- MODULE Spec2Model ----
(***************************************************************************)
(* Upload monitoring and transcription pipeline of Rooche-Automation1.     *)
(*                                                                         *)
(* The model follows services/monitoring_service.py (MonitoringService),   *)
(* services/audio_processor.py (AudioProcessor) and                        *)
(* services/webhook_service.py (WebhookService).  Each call of             *)
(* start_monitoring is a session with its own worker thread; all workers   *)
(* share the single flag self.monitoring_active.  A worker's position is   *)
(* the source line it is about to execute (pc = "l36" is the while test    *)
(* of monitoring_worker, and so on); steps that touch nothing shared are   *)
(* taken together with the step before them.                               *)
(***************************************************************************)
EXTENDS Integers, Sequences, FiniteSets, TLC

\* ------------------------------------------------------------------ bounds
MaxSessions == 2      \* calls of start_monitoring in one run
MaxLog == 1           \* entries appended to the history file while sessions overlap
MaxWideLog == 2       \* entries appended to the history file in a run with one session
MaxTicks == 1         \* advances of the wall clock

\* ------------------------------------------------------- program constants
SecondsPerMinute == 60
TickSeconds == SecondsPerMinute     \* the modelled wall clock advances a minute at a time

Sessions == 1..MaxSessions
TimeoutMinutes == {1}
WideTimeoutMinutes == {0, 1}

\* core/constants.py VALID_AUDIO_VIDEO_EXTENSIONS
VALID_AUDIO_VIDEO_EXTENSIONS ==
    <<".mp3", ".mp4", ".wav", ".m4a", ".flac", ".ogg", ".webm", ".avi", ".mov", ".wmv">>

\* ----------------------------------------------------- the history file
\* An entry of the ShareX history file.  DateTime is the ISO-8601 text split
\* into its wall-clock part and its zone designator ("Z", an explicit offset,
\* or "" when the text carries no zone); FileName is split at its last dot.
MediaNew == [FilePath |-> "a.mp4", FileName |-> [stem |-> "a", suffix |-> ".mp4"],
             DateTime |-> [wall |-> 3, zone |-> "Z"], URL |-> "u"]
ShotNew == [FilePath |-> "d.png", FileName |-> [stem |-> "d", suffix |-> ".png"],
            DateTime |-> [wall |-> 3, zone |-> "Z"], URL |-> "u"]
MediaUpper == [FilePath |-> "b.MP4", FileName |-> [stem |-> "b", suffix |-> ".MP4"],
               DateTime |-> [wall |-> 2, zone |-> ""], URL |-> "u"]
MediaOffset == [FilePath |-> "c.wav", FileName |-> [stem |-> "c", suffix |-> ".wav"],
                DateTime |-> [wall |-> 2, zone |-> "+01:00"], URL |-> "u"]
MediaOld == [FilePath |-> "e.mp3", FileName |-> [stem |-> "e", suffix |-> ".mp3"],
             DateTime |-> [wall |-> 1, zone |-> "Z"], URL |-> "u"]
\* entries that lack one of the keys the scan reads
NoPath == [FileName |-> [stem |-> "h", suffix |-> ".mp4"],
           DateTime |-> [wall |-> 3, zone |-> "Z"], URL |-> "u"]
NoDate == [FilePath |-> "i.mp4", FileName |-> [stem |-> "i", suffix |-> ".mp4"],
           URL |-> "u"]
NoName == [FilePath |-> "g.mp4", DateTime |-> [wall |-> 3, zone |-> "Z"], URL |-> "u"]

\* what the capture tool writes while sessions run concurrently
EntryPool == {MediaNew, ShotNew}
\* what a single poll may meet in the file
WidePool == {MediaNew, ShotNew, MediaUpper, MediaOffset, MediaOld,
             NoPath, NoDate, NoName}

\* Reference times handed to start_monitoring: aware datetimes
\* (datetime.now(timezone.utc).astimezone()), wall clock plus UTC offset.
AfterDts == {[wall |-> 2, off |-> 1]}
WideAfterDts == {[wall |-> 2, off |-> 1], [wall |-> 2, off |-> 0]}

\* str.lower() on the suffixes that occur in the pools
Lower(x) ==
    CASE x = ".MP4" -> ".mp4"
      [] x = ".WAV" -> ".wav"
      [] OTHER -> x

\* datetime.fromisoformat(entry["DateTime"].replace("Z", "+00:00")), then
\* tzinfo None -> replace(tzinfo=timezone.utc)   (monitoring_service.py 94-96)
OffsetOf(zone) ==
    CASE zone = "Z" -> 0
      [] zone = "" -> 0
      [] zone = "+01:00" -> 1

EntryTime(entry) == [wall |-> entry.DateTime.wall, off |-> OffsetOf(entry.DateTime.zone)]

\* aware datetimes compare by their UTC instant
Instant(dt) == dt.wall - dt.off

\* entry_time > after_dt   (monitoring_service.py 98)
IsAfter_Geq(entry_time, after) == Instant(entry_time) >= Instant(after)
IsAfter(entry_time, after) == Instant(entry_time) > Instant(after)

\* any(file_name.endswith(ext) for ext in VALID_AUDIO_VIDEO_EXTENSIONS)
\* with file_name = entry.get("FileName", "").lower()   (100-102)
HasValidExtension(entry) ==
    /\ "FileName" \in DOMAIN entry
    /\ \E i \in DOMAIN VALID_AUDIO_VIDEO_EXTENSIONS :
           Lower(entry.FileName.suffix) = VALID_AUDIO_VIDEO_EXTENSIONS[i]

\* 93 and 98: the entry has a path and a time, and the time is after the
\* reference time
IsNew(entry, after) ==
    /\ "FilePath" \in DOMAIN entry /\ "DateTime" \in DOMAIN entry
    /\ IsAfter(EntryTime(entry), after)

\* 99: entry['FileName'] in the debug message raises KeyError
RaisesKeyError(entry) == "FileName" \notin DOMAIN entry

\* the tests of lines 93, 98 and 102 together: the entry the scan selects
Selects(entry, after) ==
    /\ IsNew(entry, after)
    /\ HasValidExtension(entry)

\* 89: reversed(history) starts at the last entry of the file and goes on to
\* the entry before
NewestFirst_Oldest(entries) == IF Len(entries) > 0 THEN 1 ELSE 0
NewestFirst(entries) == Len(entries)
NextOlder_None(i) == 0
NextOlder(i) == i - 1

\* ------------------------------------------------- reading the history
\* Text is a sequence of one-character strings.  "a" and "b" each stand for
\* one complete member ("key": value) of an object.
MaxObjects == 3       \* objects written to the file in one run

Whitespace == {" ", "\n", "\r"}
Members == {"a", "b"}

\* objects as the capture tool may write them: compact, indented, nested
ObjectTexts ==
    { <<"{", "a", "}">>,
      <<"{", "\n", " ", "b", "\n", "}">>,
      <<"{", "a", ",", "{", "b", "}", "\n", "}">> }

\* what may stand between two adjacent objects of the file
Separators == { << >>, <<"\n">>, <<"\r", "\n">>, <<" ">>, <<"\n", "\n">> }

RECURSIVE Join(_, _, _)
\* objs[i], seps[i], objs[i+1], ... from position i on
Join(objs, seps, i) ==
    IF i > Len(objs) THEN << >>
    ELSE IF i = Len(objs) THEN objs[i]
    ELSE objs[i] \o seps[i] \o Join(objs, seps, i + 1)

RECURSIVE UniversalNewlines(_)
\* open(history_path, 'r'): text mode turns "\r\n" and "\r" into "\n"
UniversalNewlines(bytes) ==
    IF bytes = << >> THEN << >>
    ELSE IF Head(bytes) = "\r"
    THEN <<"\n">> \o UniversalNewlines(
             IF Len(bytes) > 1 /\ bytes[2] = "\n" THEN SubSeq(bytes, 3, Len(bytes))
             ELSE Tail(bytes))
    ELSE <<Head(bytes)>> \o UniversalNewlines(Tail(bytes))

RECURSIVE Replace(_, _, _)
\* str.replace(old, new): every non-overlapping occurrence, left to right
Replace(text, old, new) ==
    IF Len(text) < Len(old) THEN text
    ELSE IF SubSeq(text, 1, Len(old)) = old
    THEN new \o Replace(SubSeq(text, Len(old) + 1, Len(text)), old, new)
    ELSE <<Head(text)>> \o Replace(Tail(text), old, new)

\* "[" + content.replace("}\n{", "},\n{") + "]"   (monitoring_service.py 84,
\* sharex_service.py 114)
RepairEntries_NoComma(content) ==
    <<"[">> \o Replace(content, <<"}", "\n", "{">>, <<"}", "\n", "{">>) \o <<"]">>
RepairEntries(content) ==
    <<"[">> \o Replace(content, <<"}", "\n", "{">>, <<"}", ",", "\n", "{">>) \o <<"]">>

\* json.loads on this alphabet.  A parse result is [ok, val, pos]: val is
\* the value read, written without whitespace, pos the position after it.
ParseError == [ok |-> FALSE, val |-> << >>, pos |-> 0]

RECURSIVE SkipWhitespace(_, _)
SkipWhitespace(text, i) ==
    IF i <= Len(text) /\ text[i] \in Whitespace THEN SkipWhitespace(text, i + 1) ELSE i

RECURSIVE ParseObject(_, _), ParseMembers(_, _, _)
\* an object starting at position i
ParseObject(text, i) ==
    IF i > Len(text) \/ text[i] # "{" THEN ParseError
    ELSE LET j == SkipWhitespace(text, i + 1) IN
         IF j <= Len(text) /\ text[j] = "}"
         THEN [ok |-> TRUE, val |-> <<"{", "}">>, pos |-> j + 1]
         ELSE ParseMembers(text, j, <<"{">>)

\* the members of an object from position i on, acc the value so far
ParseMembers(text, i, acc) ==
    LET member ==
            IF i > Len(text) THEN ParseError
            ELSE IF text[i] \in Members
            THEN [ok |-> TRUE, val |-> <<text[i]>>, pos |-> i + 1]
            ELSE ParseObject(text, i)
        j == SkipWhitespace(text, member.pos)
    IN  IF ~member.ok \/ j > Len(text) THEN ParseError
        ELSE IF text[j] = ","
        THEN ParseMembers(text, SkipWhitespace(text, j + 1), acc \o member.val \o <<",">>)
        ELSE IF text[j] = "}"
        THEN [ok |-> TRUE, val |-> acc \o member.val \o <<"}">>, pos |-> j + 1]
        ELSE ParseError

RECURSIVE ParseElements(_, _, _)
\* the elements of the array from position i on, acc the list so far
ParseElements(text, i, acc) ==
    LET element == ParseObject(text, i)
        j == SkipWhitespace(text, element.pos)
    IN  IF ~element.ok \/ j > Len(text) THEN ParseError
        ELSE IF text[j] = ","
        THEN ParseElements(text, SkipWhitespace(text, j + 1), Append(acc, element.val))
        ELSE IF text[j] = "]"
        THEN [ok |-> TRUE, val |-> Append(acc, element.val), pos |-> j + 1]
        ELSE ParseError

\* json.loads(raw_entries) for an array of objects: the list, or an error
\* (JSONDecodeError) when the text is no JSON document
JsonLoadsArray(text) ==
    LET i == SkipWhitespace(text, 1) IN
    IF i > Len(text) \/ text[i] # "[" THEN ParseError
    ELSE LET j == SkipWhitespace(text, i + 1)
             r == IF j <= Len(text) /\ text[j] = "]"
                  THEN [ok |-> TRUE, val |-> << >>, pos |-> j + 1]
                  ELSE ParseElements(text, j, << >>)
         IN  IF r.ok /\ SkipWhitespace(text, r.pos) = Len(text) + 1
             THEN [ok |-> TRUE, val |-> r.val]
             ELSE [ok |-> FALSE, val |-> << >>]

\* json.loads of one object on its own
JsonLoadsObject(text) ==
    LET r == ParseObject(text, SkipWhitespace(text, 1)) IN
    IF r.ok /\ SkipWhitespace(text, r.pos) = Len(text) + 1
    THEN [ok |-> TRUE, val |-> r.val]
    ELSE [ok |-> FALSE, val |-> << >>]

\* ------------------------------------------------------------------ state
VARIABLES
    monitoring_active,   \* self.monitoring_active, shared by every worker
    monitoring_thread,   \* self.monitoring_thread: the session started last, 0 = None
    now,                 \* the wall clock, in seconds
    log,                 \* the entries of the history file, oldest first
    webhook_url,         \* WebhookService.webhook_url, "" when WEBHOOK_URL is unset
    pc,                  \* per session: the line its worker is at
    after_dt,            \* per session: the reference time
    timeout_seconds,     \* per session
    start_monitor_time,  \* per session
    history,             \* per session: the entries parsed by the current poll
    idx,                 \* per session: position of the newest-first scan in history
    transcription,       \* per session: what process_file returned
    temp_audio,          \* per session: the temporary .wav exists
    lastStatus,          \* per session: the last message given to status_callback
    completions,         \* per session: calls of completion_callback
    results,             \* per session: calls of callback (on_result)
    posts,               \* per session: HTTP POSTs made by send_data
    pipelines,           \* per session: artifacts handed to process_file
    found,               \* per session: line 103 was reached
    exitPath,            \* per session: how the worker thread ended
    stopped,             \* per session: stop_monitoring was called while it polled
    stoppedEarly,        \* per session: ... and no entry of the log qualified then
    superseded,          \* per session: a later start_monitoring while it polled
    scansAfterFound,     \* per session: the log was read again after line 103
    scansAfterSuperseded, \* per session: the log was read after a later start
    objects,             \* reader: the objects the capture tool wrote, in order
    separators,          \* reader: what it wrote between adjacent objects
    file,                \* reader: the bytes of the history file
    content,             \* reader: f.read()
    raw_entries,         \* reader: the repaired text
    parsed,              \* reader: the outcome of json.loads(raw_entries)
    rpc,                 \* reader: the line the reader is at
    history_path,        \* config "history_path", "" when none is selected
    dialog,              \* the error dialog handle_submission showed last, "" = none
    failure,             \* per session: the stage that failed, "" = none
    errors,              \* per session: the failure messages given to status_callback
    run,                 \* process_file: how the transcoder call ends
    engine,              \* process_file: how the speech engine call ends
    removable,           \* process_file: os.remove of the temporary file succeeds
    ppc,                 \* process_file: the line it is at
    audio_path,          \* process_file: what extract_audio returned
    temp_exists,         \* process_file: the temporary .wav exists on disk
    statuses,            \* process_file: the messages given to status_callback, in order
    result,              \* process_file: its return value
    stoppedMid,          \* per session: stop_monitoring was called during its pipeline
    args,                \* send_data: the arguments of the call
    response,            \* send_data: how the server answers the POST
    wpc,                 \* send_data: the line it is at
    data,                \* send_data: the dictionary built by lines 27-41
    requests,            \* send_data: the bodies handed to requests.post, in order
    ret                  \* send_data: its return value

svars == <<pc, after_dt, timeout_seconds, start_monitor_time,
           history, idx, transcription, temp_audio>>
ovars == <<lastStatus, completions, results, posts, pipelines, found, exitPath>>
hvars == <<stopped, stoppedEarly, superseded, scansAfterFound, scansAfterSuperseded,
           stoppedMid>>
gvars == <<monitoring_active, monitoring_thread, now, log, webhook_url>>
rvars == <<objects, separators, file, content, raw_entries, parsed, rpc>>
cvars == <<history_path, dialog>>
fvars == <<failure, errors>>
pvars == <<run, engine, removable, ppc, audio_path, temp_exists, statuses, result>>
wvars == <<args, response, wpc, data, requests, ret>>
\* everything the monitor owns
mvars == <<gvars, svars, ovars, hvars, cvars, fvars>>
vars == <<mvars, rvars, pvars, wvars>>

NoTranscription == "None"

\* worker positions.  A session polls until line 103 clears the flag: at
\* "l103" the tests of lines 90-102 are passed and the flag is still set.
PollingPCs == {"l36", "l76", "l90", "l103"}
PipelinePCs == {"p101", "p106", "l111", "l115"}

MonitorInit ==
    /\ monitoring_active = FALSE
    /\ monitoring_thread = 0
    /\ now = 1
    /\ log = << >>
    /\ dialog = ""
    /\ pc = [s \in Sessions |-> "idle"]
    /\ after_dt = [s \in Sessions |-> [wall |-> 0, off |-> 0]]
    /\ timeout_seconds = [s \in Sessions |-> 0]
    /\ start_monitor_time = [s \in Sessions |-> 0]
    /\ history = [s \in Sessions |-> << >>]
    /\ idx = [s \in Sessions |-> 0]
    /\ transcription = [s \in Sessions |-> NoTranscription]
    /\ temp_audio = [s \in Sessions |-> FALSE]
    /\ lastStatus = [s \in Sessions |-> ""]
    /\ completions = [s \in Sessions |-> 0]
    /\ results = [s \in Sessions |-> 0]
    /\ posts = [s \in Sessions |-> 0]
    /\ pipelines = [s \in Sessions |-> 0]
    /\ found = [s \in Sessions |-> FALSE]
    /\ exitPath = [s \in Sessions |-> ""]
    /\ stopped = [s \in Sessions |-> FALSE]
    /\ stoppedEarly = [s \in Sessions |-> FALSE]
    /\ superseded = [s \in Sessions |-> FALSE]
    /\ scansAfterFound = [s \in Sessions |-> FALSE]
    /\ scansAfterSuperseded = [s \in Sessions |-> FALSE]
    /\ stoppedMid = [s \in Sessions |-> FALSE]
    /\ failure = [s \in Sessions |-> ""]
    /\ errors = [s \in Sessions |-> {}]

\* the configuration a working installation has: WEBHOOK_URL set in .env
\* and a history file selected
Configured ==
    /\ webhook_url = "https://hook"
    /\ history_path = "history.json"

\* what the configuration may hold when the user submits
WebhookUrls == {"", "https://hook"}
HistoryPaths == {"", "history.json"}

\* no file is being read
ReaderIdle ==
    /\ objects = << >>
    /\ separators = << >>
    /\ file = << >>
    /\ content = << >>
    /\ raw_entries = << >>
    /\ parsed = [ok |-> FALSE, val |-> << >>]
    /\ rpc = "off"

\* process_file is not being run on its own
ProcessIdle ==
    /\ run = [launched |-> FALSE, exit |-> 0, output |-> FALSE, stderr |-> ""]
    /\ engine = "text"
    /\ removable = TRUE
    /\ ppc = "off"
    /\ audio_path = "None"
    /\ temp_exists = FALSE
    /\ statuses = << >>
    /\ result = "None"

\* send_data is not being called on its own
WebhookIdle ==
    /\ args = << >>
    /\ response = [error |-> FALSE, code |-> 0]
    /\ wpc = "off"
    /\ data = << >>
    /\ requests = << >>
    /\ ret = "None"

Init == MonitorInit /\ Configured /\ ReaderIdle /\ ProcessIdle /\ WebhookIdle

\* a run with one submission: the configuration is whatever the user left
InitSingle ==
    /\ MonitorInit
    /\ webhook_url \in WebhookUrls
    /\ history_path \in HistoryPaths
    /\ ReaderIdle
    /\ ProcessIdle
    /\ WebhookIdle

Set(f, s, v) == [f EXCEPT ![s] = v]

\* some entry of the sequence would be selected for the reference time
Qualifying(entries, after) == \E i \in DOMAIN entries : Selects(entries[i], after)

\* ------------------------------------------------------- the environment
\* the capture tool appends an entry to the history file
AppendToLog(e, limit) ==
    /\ UNCHANGED <<rvars, pvars, wvars, cvars, fvars>>
    /\ Len(log) < limit
    /\ log' = Append(log, e)
    /\ UNCHANGED <<monitoring_active, monitoring_thread, now, webhook_url>>
    /\ UNCHANGED <<svars, ovars, hvars>>

AppendEntry == \E e \in EntryPool : AppendToLog(e, MaxLog)

AppendWide == \E e \in WidePool : AppendToLog(e, MaxWideLog)

\* time passes
Tick ==
    /\ UNCHANGED <<rvars, pvars, wvars, cvars, fvars>>
    /\ now < 1 + MaxTicks * TickSeconds
    /\ now' = now + TickSeconds
    /\ UNCHANGED <<monitoring_active, monitoring_thread, log, webhook_url>>
    /\ UNCHANGED <<svars, ovars, hvars>>

\* ------------------------------------------------- MonitoringService API
\* start_monitoring (monitoring_service.py 20-71): sets the flag and starts a
\* new worker thread, which notes its start time (33); nothing is done about
\* a worker that is still running.
Start(after, timeout_minutes) ==
    /\ UNCHANGED <<rvars, pvars, wvars, cvars, fvars>>
    /\ monitoring_thread < MaxSessions
    /\ LET s == monitoring_thread + 1 IN
          /\ monitoring_active' = TRUE
          /\ monitoring_thread' = s
          /\ after_dt' = Set(after_dt, s, after)
          /\ timeout_seconds' = Set(timeout_seconds, s, timeout_minutes * SecondsPerMinute)
          /\ start_monitor_time' = Set(start_monitor_time, s, now)
          /\ pc' = Set(pc, s, "l36")
          /\ superseded' = [t \in Sessions |-> superseded[t] \/ pc[t] \in PollingPCs]
    /\ UNCHANGED <<now, log, webhook_url>>
    /\ UNCHANGED <<history, idx, transcription, temp_audio>>
    /\ UNCHANGED <<ovars, stopped, stoppedEarly, scansAfterFound, scansAfterSuperseded>>
    /\ UNCHANGED stoppedMid

\* any caller, any time: a second call finds the first worker still running
StartMonitoring == \E a \in AfterDts, m \in TimeoutMinutes : Start(a, m)

\* the one call of a run with a single session, made by handle_submission
\* (calendar_tab.py 894-959): the history path (903) and the endpoint (911)
\* are tested; the time limit is taken from the configuration as it is (917)
StartSingle ==
    /\ monitoring_thread = 0
    /\ history_path # ""
    /\ webhook_url # ""
    /\ \E a \in WideAfterDts, m \in WideTimeoutMinutes : Start(a, m)

\* handle_submission 903-905 and 911-914: an error dialog, and no call of
\* start_monitoring
RejectSubmission ==
    /\ monitoring_thread = 0
    /\ history_path = "" \/ webhook_url = ""
    /\ dialog' = IF history_path = "" THEN "No ShareX history.json selected."
                 ELSE "Webhook URL not set in .env file."
    /\ UNCHANGED history_path
    /\ UNCHANGED <<gvars, svars, ovars, hvars, fvars, rvars, pvars, wvars>>

\* stop_monitoring (129-132) clears the flag and touches no worker
StopMonitoring_Aborts ==
    /\ UNCHANGED <<rvars, pvars, wvars, cvars, fvars>>
    /\ monitoring_thread > 0
    /\ monitoring_active' = FALSE
    /\ stopped' = [t \in Sessions |-> stopped[t] \/ pc[t] \in PollingPCs]
    /\ stoppedEarly' = [t \in Sessions |->
                           \/ stoppedEarly[t]
                           \/ pc[t] \in PollingPCs /\ ~Qualifying(log, after_dt[t])]
    /\ stoppedMid' = [t \in Sessions |-> stoppedMid[t] \/ pc[t] \in PipelinePCs]
    /\ pc' = [t \in Sessions |-> IF pc[t] \in PipelinePCs THEN "l36" ELSE pc[t]]
    /\ UNCHANGED <<monitoring_thread, now, log, webhook_url>>
    /\ UNCHANGED <<after_dt, timeout_seconds, start_monitor_time,
                   history, idx, transcription, temp_audio>>
    /\ UNCHANGED <<ovars, superseded, scansAfterFound, scansAfterSuperseded>>

StopMonitoring ==
    /\ UNCHANGED <<rvars, pvars, wvars, cvars, fvars>>
    /\ monitoring_thread > 0
    /\ monitoring_active' = FALSE
    /\ stopped' = [t \in Sessions |-> stopped[t] \/ pc[t] \in PollingPCs]
    /\ stoppedEarly' = [t \in Sessions |->
                           \/ stoppedEarly[t]
                           \/ pc[t] \in PollingPCs /\ ~Qualifying(log, after_dt[t])]
    /\ stoppedMid' = [t \in Sessions |-> stoppedMid[t] \/ pc[t] \in PipelinePCs]
    /\ UNCHANGED <<monitoring_thread, now, log, webhook_url>>
    /\ UNCHANGED <<svars, ovars, superseded, scansAfterFound, scansAfterSuperseded>>

\* ------------------------------------------------------ monitoring_worker
\* 40: elapsed_seconds >= timeout_seconds
TimeLimitReached_Swapped(elapsed_seconds, limit) == limit >= elapsed_seconds
TimeLimitReached_Never(elapsed_seconds, limit) == FALSE
TimeLimitReached(elapsed_seconds, limit) == elapsed_seconds >= limit

\* 36-61: the while test, then the clock is read and the time limit tested;
\* below the limit the remaining time is shown (the sleep of line 65 makes
\* int(current_time) differ from last_display_time at every turn)
WhileTest(s) ==
    /\ UNCHANGED <<rvars, pvars, wvars, cvars, fvars>>
    /\ pc[s] = "l36"
    /\ IF ~monitoring_active
       THEN /\ pc' = Set(pc, s, "l67")
            /\ UNCHANGED lastStatus
       ELSE IF TimeLimitReached(now - start_monitor_time[s], timeout_seconds[s])
       THEN /\ pc' = Set(pc, s, "l41")
            /\ UNCHANGED lastStatus
       ELSE /\ pc' = Set(pc, s, "l76")
            /\ lastStatus' = Set(lastStatus, s, "Monitoring for uploads")
    /\ UNCHANGED <<after_dt, timeout_seconds, start_monitor_time,
                   history, idx, transcription, temp_audio>>
    /\ UNCHANGED <<completions, results, posts, pipelines, found, exitPath>>
    /\ UNCHANGED <<gvars, hvars>>

\* 43, 68, 116, 119, 122: completion_callback()
Completed(n) == n + 1

\* 41-45: the timeout branch
TimedOut(s) ==
    /\ UNCHANGED <<rvars, pvars, wvars, cvars>>
    /\ pc[s] = "l41"
    /\ monitoring_active' = FALSE
    /\ lastStatus' = Set(lastStatus, s, "Time limit reached")
    /\ completions' = Set(completions, s, Completed(completions[s]))
    /\ exitPath' = Set(exitPath, s, "timeout")
    /\ failure' = Set(failure, s, "timeout")
    /\ errors' = Set(errors, s, errors[s] \cup {"Time limit reached"})
    /\ pc' = Set(pc, s, "done")
    /\ UNCHANGED <<monitoring_thread, now, log, webhook_url>>
    /\ UNCHANGED <<after_dt, timeout_seconds, start_monitor_time,
                   history, idx, transcription, temp_audio>>
    /\ UNCHANGED <<results, posts, pipelines, found, hvars>>

\* 67: if not self.monitoring_active
FlagStillClear(active) == ~active

\* 67-68: after the loop, completion_callback if the flag is (still) false
LoopExit(s) ==
    /\ UNCHANGED <<rvars, pvars, wvars, cvars, fvars>>
    /\ pc[s] = "l67"
    /\ completions' = Set(completions, s,
                          IF FlagStillClear(monitoring_active)
                          THEN Completed(completions[s]) ELSE completions[s])
    /\ exitPath' = Set(exitPath, s, "loop")
    /\ pc' = Set(pc, s, "done")
    /\ UNCHANGED <<lastStatus, results, posts, pipelines, found>>
    /\ UNCHANGED <<after_dt, timeout_seconds, start_monitor_time,
                   history, idx, transcription, temp_audio>>
    /\ UNCHANGED <<gvars, hvars>>

\* --------------------------------------------------- _check_for_new_files
\* 76-78: no history file is configured or the file does not exist: the poll
\* returns at once; the worker sleeps (65) and comes back to the while test
NoHistoryFile(s) ==
    /\ UNCHANGED <<rvars, pvars, wvars, cvars>>
    /\ pc[s] = "l76"
    /\ pc' = Set(pc, s, "l36")
    /\ UNCHANGED <<after_dt, timeout_seconds, start_monitor_time,
                   history, idx, transcription, temp_audio>>
    /\ UNCHANGED <<gvars, ovars, hvars, fvars>>

\* 80-85 and 125-127: reading or parsing raises (the file is being written,
\* its last entry is truncated): the handler reports and the poll returns
ReadError_Stops(s) ==
    /\ UNCHANGED <<rvars, pvars, wvars, cvars>>
    /\ pc[s] = "l76"
    /\ history_path # ""
    /\ lastStatus' = Set(lastStatus, s, "Error reading history")
    /\ monitoring_active' = FALSE
    /\ pc' = Set(pc, s, "l36")
    /\ UNCHANGED <<monitoring_thread, now, log, webhook_url>>
    /\ UNCHANGED <<after_dt, timeout_seconds, start_monitor_time,
                   history, idx, transcription, temp_audio>>
    /\ UNCHANGED <<completions, results, posts, pipelines, found, exitPath>>
    /\ UNCHANGED <<hvars, fvars>>
ReadError(s) ==
    /\ UNCHANGED <<rvars, pvars, wvars, cvars>>
    /\ pc[s] = "l76"
    /\ history_path # ""
    /\ lastStatus' = Set(lastStatus, s, "Error reading history")
    /\ pc' = Set(pc, s, "l36")
    /\ UNCHANGED <<after_dt, timeout_seconds, start_monitor_time,
                   history, idx, transcription, temp_audio>>
    /\ UNCHANGED <<completions, results, posts, pipelines, found, exitPath>>
    /\ UNCHANGED <<gvars, hvars, fvars>>

\* 80-89: the whole file is read and parsed anew, the scan starts
HistoryLoaded(s) ==
    /\ UNCHANGED <<rvars, pvars, wvars, cvars>>
    /\ pc[s] = "l76"
    /\ history_path # ""
    /\ history' = Set(history, s, log)
    /\ idx' = Set(idx, s, NewestFirst(log))
    /\ pc' = Set(pc, s, "l90")
    /\ scansAfterFound' = Set(scansAfterFound, s, found[s])
    /\ scansAfterSuperseded' = Set(scansAfterSuperseded, s, superseded[s])
    /\ UNCHANGED <<after_dt, timeout_seconds, start_monitor_time, transcription, temp_audio>>
    /\ UNCHANGED <<gvars, ovars, stopped, stoppedEarly, superseded, stoppedMid, fvars>>

\* 76-85: one of the three
ReadHistory(s) ==
    \/ NoHistoryFile(s)
    \/ ReadError(s)
    \/ HistoryLoaded(s)

\* 90: if not self.monitoring_active: return
ScanCancelled_Never(active) == FALSE
ScanCancelled(active) == ~active

\* 89-102: the next entry of reversed(history): the cancellation test, then
\* the entry is classified.  The scan returns (to the sleep of line 65 and
\* the while test) when the entries are exhausted or the flag is clear, and
\* through the handler of 125-127 when line 99 raises.
ScanNext(s) ==
    /\ UNCHANGED <<rvars, pvars, wvars, cvars>>
    /\ pc[s] = "l90"
    /\ IF idx[s] = 0 \/ ScanCancelled(monitoring_active)
       THEN /\ pc' = Set(pc, s, "l36")
            /\ history' = Set(history, s, << >>)
            /\ idx' = Set(idx, s, 0)
            /\ UNCHANGED lastStatus
       ELSE IF ~IsNew(history[s][idx[s]], after_dt[s])
       THEN /\ pc' = Set(pc, s, "l90")
            /\ idx' = Set(idx, s, NextOlder(idx[s]))
            /\ UNCHANGED <<history, lastStatus>>
       ELSE IF RaisesKeyError(history[s][idx[s]])
       THEN /\ pc' = Set(pc, s, "l36")
            /\ history' = Set(history, s, << >>)
            /\ idx' = Set(idx, s, 0)
            /\ lastStatus' = Set(lastStatus, s, "Error reading history: 'FileName'")
       ELSE IF HasValidExtension(history[s][idx[s]])
       THEN /\ pc' = Set(pc, s, "l103")
            /\ UNCHANGED <<history, idx, lastStatus>>
       ELSE /\ pc' = Set(pc, s, "l90")
            /\ idx' = Set(idx, s, NextOlder(idx[s]))
            /\ UNCHANGED <<history, lastStatus>>
    /\ UNCHANGED <<after_dt, timeout_seconds, start_monitor_time, transcription, temp_audio>>
    /\ UNCHANGED <<completions, results, posts, pipelines, found, exitPath>>
    /\ UNCHANGED <<gvars, hvars, fvars>>

\* 103-107: the flag is cleared, the find is reported, and
\* os.path.exists(local_file_path) decides between the pipeline and 121
FoundFile(s) ==
    /\ UNCHANGED <<rvars, pvars, wvars, cvars, fvars>>
    /\ pc[s] = "l103"
    /\ monitoring_active' = FALSE
    /\ lastStatus' = Set(lastStatus, s, "Found audio/video file")
    /\ found' = Set(found, s, TRUE)
    /\ \E exists \in BOOLEAN :
          IF exists
          THEN /\ pc' = Set(pc, s, "p101")
               /\ pipelines' = Set(pipelines, s, pipelines[s] + 1)
          ELSE /\ pc' = Set(pc, s, "l121")
               /\ UNCHANGED pipelines
    /\ UNCHANGED <<monitoring_thread, now, log, webhook_url>>
    /\ UNCHANGED <<after_dt, timeout_seconds, start_monitor_time,
                   history, idx, transcription, temp_audio>>
    /\ UNCHANGED <<completions, results, posts, exitPath, hvars>>

\* 121-123, then 65: the local file is missing
FileNotFound(s) ==
    /\ UNCHANGED <<rvars, pvars, wvars, cvars>>
    /\ pc[s] = "l121"
    /\ lastStatus' = Set(lastStatus, s, "File not found")
    /\ failure' = Set(failure, s, "file not found")
    /\ errors' = Set(errors, s, errors[s] \cup {"File not found"})
    /\ completions' = Set(completions, s, Completed(completions[s]))
    /\ pc' = Set(pc, s, "l36")
    /\ history' = Set(history, s, << >>)
    /\ idx' = Set(idx, s, 0)
    /\ UNCHANGED <<after_dt, timeout_seconds, start_monitor_time, transcription, temp_audio>>
    /\ UNCHANGED <<results, posts, pipelines, found, exitPath>>
    /\ UNCHANGED <<gvars, hvars>>

\* ---------------------------------------------------------- AudioProcessor
\* the ways the transcoder call of extract_audio can end (audio_processor.py
\* 19-45): exit code 0 with or without the output file, a non-zero exit code
\* (CalledProcessError), any other exception
ExtractOutcomes == {"ok", "no output", "nonzero", "exception"}

\* the ways the speech engine call of transcribe_locally can end (63-91): an
\* output file with text, an empty output file, no output file, an exception
TranscribeOutcomes == {"text", "empty", "no output", "exception"}

\* if transcription:   (monitoring_service.py 109)
Truthy_Always(t) == TRUE
Truthy_NotNone(t) == t # NoTranscription
Truthy(t) == t # NoTranscription /\ t # ""

\* process_file 100-104 with extract_audio: a path is returned only for exit
\* code 0 with the output file present; otherwise process_file returns None
Extract(s) ==
    /\ UNCHANGED <<rvars, pvars, wvars, cvars>>
    /\ pc[s] = "p101"
    /\ \E outcome \in ExtractOutcomes, partial \in BOOLEAN :
          IF outcome = "ok"
          THEN /\ temp_audio' = Set(temp_audio, s, TRUE)
               /\ lastStatus' = Set(lastStatus, s, "Audio extraction completed")
               /\ pc' = Set(pc, s, "p106")
               /\ UNCHANGED <<transcription, fvars>>
          ELSE /\ temp_audio' = Set(temp_audio, s, outcome = "nonzero" /\ partial)
               /\ lastStatus' = Set(lastStatus, s, "Failed to extract audio")
               /\ failure' = Set(failure, s, "extraction")
               /\ errors' = Set(errors, s, errors[s] \cup
                                 {"Audio extraction failed", "Failed to extract audio"})
               /\ transcription' = Set(transcription, s, NoTranscription)
               /\ pc' = Set(pc, s, "l118")
    /\ UNCHANGED <<after_dt, timeout_seconds, start_monitor_time, history, idx>>
    /\ UNCHANGED <<completions, results, posts, pipelines, found, exitPath>>
    /\ UNCHANGED <<gvars, hvars>>

\* process_file 106-115 with transcribe_locally: the text of the engine's
\* output file or None; the temporary audio file is removed afterwards
\* (Cleanup below follows os.remove failing as well).
\* Then monitoring_service.py 109 branches on the value.
Transcribe(s) ==
    /\ UNCHANGED <<rvars, pvars, wvars, cvars>>
    /\ pc[s] = "p106"
    /\ \E outcome \in TranscribeOutcomes :
          LET t == CASE outcome = "text" -> "transcript"
                     [] outcome = "empty" -> ""
                     [] OTHER -> NoTranscription
          IN /\ transcription' = Set(transcription, s, t)
             /\ lastStatus' = Set(lastStatus, s,
                    CASE outcome \in {"text", "empty"} -> "Transcription completed"
                      [] outcome = "no output" -> "Transcription output not found"
                      [] OTHER -> "Local transcription failed")
             /\ failure' = Set(failure, s,
                    CASE outcome = "text" -> failure[s]
                      [] outcome = "empty" -> "empty transcription"
                      [] outcome = "no output" -> "transcription output missing"
                      [] OTHER -> "transcription raised")
             /\ errors' = Set(errors, s,
                    CASE outcome \in {"text", "empty"} -> errors[s]
                      [] outcome = "no output" ->
                             errors[s] \cup {"Transcription output not found"}
                      [] OTHER -> errors[s] \cup {"Local transcription failed"})
             /\ pc' = Set(pc, s, IF Truthy(t) THEN "l111" ELSE "l118")
    /\ temp_audio' = Set(temp_audio, s, FALSE)
    /\ UNCHANGED <<after_dt, timeout_seconds, start_monitor_time, history, idx>>
    /\ UNCHANGED <<completions, results, posts, pipelines, found, exitPath>>
    /\ UNCHANGED <<gvars, hvars>>

\* ---------------------------------------------------------- WebhookService
\* the ways requests.post with raise_for_status can end (webhook_service.py
\* 43-50): an answer that raise_for_status accepts, or an exception (network
\* error, an answer that raise_for_status refuses)
PostOutcomes == {"accepted", "raised"}

\* send_data (webhook_service.py 15-50) as called at monitoring_service.py
\* 111-114: no POST without an endpoint, else one POST; False is returned
\* for a missing endpoint and for a failed POST, and the caller drops the
\* returned boolean
\* 111-115: nothing reads what send_data returned; line 115 follows
AfterSend_Checked(delivered) == IF delivered THEN "l115" ELSE "l118"
AfterSend(delivered) == "l115"

SendData(s) ==
    /\ UNCHANGED <<rvars, pvars, wvars, cvars>>
    /\ pc[s] = "l111"
    /\ \E outcome \in PostOutcomes :
          LET delivered == webhook_url # "" /\ outcome = "accepted" IN
             /\ failure' = Set(failure, s, IF delivered THEN failure[s] ELSE "delivery")
             /\ pc' = Set(pc, s, AfterSend(delivered))
    /\ posts' = Set(posts, s, IF webhook_url = "" THEN posts[s] ELSE posts[s] + 1)
    /\ UNCHANGED errors
    /\ UNCHANGED <<after_dt, timeout_seconds, start_monitor_time,
                   history, idx, transcription, temp_audio>>
    /\ UNCHANGED <<lastStatus, completions, results, pipelines, found, exitPath>>
    /\ UNCHANGED <<gvars, hvars>>

\* monitoring_service.py 115-116 and 123, then 65: callback,
\* completion_callback, return
OnResult(s) ==
    /\ UNCHANGED <<rvars, pvars, wvars, cvars, fvars>>
    /\ pc[s] = "l115"
    /\ results' = Set(results, s, results[s] + 1)
    /\ completions' = Set(completions, s, Completed(completions[s]))
    /\ pc' = Set(pc, s, "l36")
    /\ history' = Set(history, s, << >>)
    /\ idx' = Set(idx, s, 0)
    /\ transcription' = Set(transcription, s, NoTranscription)
    /\ UNCHANGED <<after_dt, timeout_seconds, start_monitor_time, temp_audio>>
    /\ UNCHANGED <<lastStatus, posts, pipelines, found, exitPath>>
    /\ UNCHANGED <<gvars, hvars>>

\* 117-119 and 123, then 65: process_file returned nothing usable
ProcessingFailed(s) ==
    /\ UNCHANGED <<rvars, pvars, wvars, cvars>>
    /\ pc[s] = "l118"
    /\ lastStatus' = Set(lastStatus, s, "File processing failed")
    /\ errors' = Set(errors, s, errors[s] \cup {"File processing failed"})
    /\ UNCHANGED failure
    /\ completions' = Set(completions, s, Completed(completions[s]))
    /\ pc' = Set(pc, s, "l36")
    /\ history' = Set(history, s, << >>)
    /\ idx' = Set(idx, s, 0)
    /\ transcription' = Set(transcription, s, NoTranscription)
    /\ UNCHANGED <<after_dt, timeout_seconds, start_monitor_time, temp_audio>>
    /\ UNCHANGED <<results, posts, pipelines, found, exitPath>>
    /\ UNCHANGED <<gvars, hvars>>

\* ------------------------------------------------------- the whole system
Worker(s) ==
    \/ WhileTest(s)
    \/ TimedOut(s)
    \/ ReadHistory(s)
    \/ ScanNext(s)
    \/ FoundFile(s)
    \/ Extract(s)
    \/ Transcribe(s)
    \/ SendData(s)
    \/ OnResult(s)
    \/ ProcessingFailed(s)
    \/ FileNotFound(s)
    \/ LoopExit(s)

Next ==
    \/ AppendEntry
    \/ Tick
    \/ StartMonitoring
    \/ StopMonitoring
    \/ \E s \in Sessions : Worker(s)

Spec == Init /\ [][Next]_vars

\* the scheduling the liveness of a session rests on: the clock advances, and
\* every worker thread that can take a step (each of them returns: a file
\* read, the transcoder, the speech engine, the POST, the sleep of line 65)
\* eventually takes one
Fairness ==
    /\ WF_vars(Tick)
    /\ \A s \in Sessions : WF_vars(Worker(s))

SpecFair == Init /\ [][Next]_vars /\ Fairness

\* a run in which start_monitoring is called once
NextSingle ==
    \/ AppendWide
    \/ Tick
    \/ StartSingle
    \/ RejectSubmission
    \/ StopMonitoring
    \/ \E s \in Sessions : Worker(s)

SpecSingle == InitSingle /\ [][NextSingle]_vars

\* ------------------------------------------ one read of the history file
\* the file holds up to MaxObjects objects, written one after the other
ReaderInit ==
    /\ \E n \in 0..MaxObjects :
          /\ objects \in [1..n -> ObjectTexts]
          /\ separators \in [1..(IF n = 0 THEN 0 ELSE n - 1) -> Separators]
    /\ file = Join(objects, separators, 1)
    /\ content = << >>
    /\ raw_entries = << >>
    /\ parsed = [ok |-> FALSE, val |-> << >>]
    /\ rpc = "l81"

\* 81-82: with open(history_path, 'r', encoding='utf-8') as f: f.read()
ReadFile ==
    /\ rpc = "l81"
    /\ content' = UniversalNewlines(file)
    /\ rpc' = "l84"
    /\ UNCHANGED <<objects, separators, file, raw_entries, parsed>>
    /\ UNCHANGED <<mvars, pvars, wvars>>

\* 84: raw_entries = "[" + content.replace(...) + "]"
Repair ==
    /\ rpc = "l84"
    /\ raw_entries' = RepairEntries(content)
    /\ rpc' = "l85"
    /\ UNCHANGED <<objects, separators, file, content, parsed>>
    /\ UNCHANGED <<mvars, pvars, wvars>>

\* 85: history = json.loads(raw_entries)
LoadJson ==
    /\ rpc = "l85"
    /\ parsed' = JsonLoadsArray(raw_entries)
    /\ rpc' = "done"
    /\ UNCHANGED <<objects, separators, file, content, raw_entries>>
    /\ UNCHANGED <<mvars, pvars, wvars>>

NextReader ==
    \/ ReadFile
    \/ Repair
    \/ LoadJson

\* a reader started on a file, the monitor idle
InitReader == MonitorInit /\ Configured /\ ReaderInit /\ ProcessIdle /\ WebhookIdle

SpecReader == InitReader /\ [][NextReader]_vars

\* ------------------------------------------------ one run of process_file
\* audio_processor.py.  A message is the text given to status_callback and
\* the detail interpolated into it.
NoAudio == "None"
TempAudioPath == "tmp.wav"

\* diagnostic texts the transcoder writes to stderr
Diagnostics == {"Invalid data found", "No such file"}
\* str(e) of the OSError raised when the transcoder cannot be launched
LaunchError == "No such file or directory: 'ffmpeg'"

\* how subprocess.run ends: the transcoder was launched or not, its exit
\* code, whether the output file exists afterwards, what it wrote to stderr
TranscoderRuns ==
    {[launched |-> FALSE, exit |-> 0, output |-> FALSE, stderr |-> ""]}
    \cup [launched : {TRUE}, exit : {0, 1}, output : BOOLEAN, stderr : Diagnostics]

Message(text, detail) == [text |-> text, detail |-> detail]

\* extract_audio 19-45: the value returned and the message reported
extract_audio_TrustsExit(r) ==
    IF ~r.launched
    THEN [ret |-> NoAudio, status |-> Message("Audio extraction failed", LaunchError)]
    ELSE IF r.exit # 0
    THEN [ret |-> NoAudio, status |-> Message("Audio extraction failed", r.stderr)]
    ELSE [ret |-> TempAudioPath, status |-> Message("Audio extraction completed", "")]
extract_audio(r) ==
    IF ~r.launched
    THEN [ret |-> NoAudio, status |-> Message("Audio extraction failed", LaunchError)]
    ELSE IF r.exit # 0
    THEN [ret |-> NoAudio, status |-> Message("Audio extraction failed", r.stderr)]
    ELSE IF r.output
    THEN [ret |-> TempAudioPath, status |-> Message("Audio extraction completed", "")]
    ELSE [ret |-> NoAudio, status |-> Message("Audio extraction failed - no output file", "")]

ProcessInit ==
    /\ run \in TranscoderRuns
    /\ engine \in TranscribeOutcomes
    /\ removable \in BOOLEAN
    /\ ppc = "l101"
    /\ audio_path = NoAudio
    /\ temp_exists = FALSE
    /\ statuses = << >>
    /\ result = NoTranscription

\* 101 with extract_audio 14-45: the transcoder runs and leaves, or does not
\* leave, an output file at the temporary path
ExtractAudio ==
    /\ ppc = "l101"
    /\ audio_path' = extract_audio(run).ret
    /\ temp_exists' = (run.launched /\ run.output)
    /\ statuses' = statuses \o <<Message("Extracting audio from file", ""),
                                   extract_audio(run).status>>
    /\ ppc' = "l102"
    /\ UNCHANGED <<run, engine, removable, result>>
    /\ UNCHANGED <<mvars, rvars, wvars>>

\* 102-104: if not audio_path or not os.path.exists(audio_path)
CheckAudioPath ==
    /\ ppc = "l102"
    /\ IF audio_path = NoAudio \/ ~temp_exists
       THEN /\ statuses' = Append(statuses, Message("Failed to extract audio", ""))
            /\ result' = NoTranscription
            /\ ppc' = "returned"
       ELSE /\ ppc' = "l106"
            /\ UNCHANGED <<statuses, result>>
    /\ UNCHANGED <<run, engine, removable, audio_path, temp_exists>>
    /\ UNCHANGED <<mvars, rvars, wvars>>

\* 106 with transcribe_locally 47-96
TranscribeLocally ==
    /\ ppc = "l106"
    /\ statuses' = statuses \o
           <<Message("Starting local transcription", ""),
             CASE ~temp_exists -> Message("Audio file not found", "")
               [] temp_exists /\ engine \in {"text", "empty"} ->
                      Message("Transcription completed", "")
               [] temp_exists /\ engine = "no output" ->
                      Message("Transcription output not found", "")
               [] OTHER -> Message("Local transcription failed", "engine error")>>
    /\ result' = CASE temp_exists /\ engine = "text" -> "transcript"
                   [] temp_exists /\ engine = "empty" -> ""
                   [] OTHER -> NoTranscription
    /\ ppc' = "l108"
    /\ UNCHANGED <<run, engine, removable, audio_path, temp_exists>>
    /\ UNCHANGED <<mvars, rvars, wvars>>

\* 108-115: the temporary file is removed if it exists, a failure of
\* os.remove is logged only; the transcription is returned
Cleanup ==
    /\ ppc = "l108"
    /\ temp_exists' = (temp_exists /\ ~removable)
    /\ ppc' = "returned"
    /\ UNCHANGED <<run, engine, removable, audio_path, statuses, result>>
    /\ UNCHANGED <<mvars, rvars, wvars>>

NextProcess ==
    \/ ExtractAudio
    \/ CheckAudioPath
    \/ TranscribeLocally
    \/ Cleanup

\* process_file called on a file, the monitor idle
InitProcess == MonitorInit /\ Configured /\ ReaderIdle /\ ProcessInit /\ WebhookIdle

SpecProcess == InitProcess /\ [][NextProcess]_vars

\* ------------------------------------------- send_data, called on its own
\* None, as an argument left out
NoArgument == "None"

RequiredKeys == {"notion_url", "description"}
OptionalKeys == {"transcription", "drive_url", "local_file_path", "result", "reason"}

\* what a caller may pass: the two required strings, and for each of the
\* optional arguments None, an empty string or a text
NotionUrls == {"https://notion/a", "https://notion/b"}
OptionalValues == {NoArgument, "", "given"}
Arguments ==
    { [k \in RequiredKeys |-> IF k = "notion_url" THEN n ELSE "weekly call"] @@ o :
         n \in NotionUrls, o \in [OptionalKeys -> OptionalValues] }

\* how the POST ends: no answer at all (connection refused, timeout), or the
\* status code of the answer
StatusCodes == {200, 204, 304, 404, 500}
Responses ==
    {[error |-> TRUE, code |-> 0]} \cup {[error |-> FALSE, code |-> c] : c \in StatusCodes}

\* 22: if not self.webhook_url
HasEndpoint_Always(url) == TRUE
HasEndpoint(url) == url # ""

\* 27-41: notion_url and description always, an optional argument when it
\* is not None
Payload_AllKeys(a) == a
Payload(a) ==
    [k \in RequiredKeys \cup {o \in OptionalKeys : a[o] # NoArgument} |-> a[k]]

\* 45: res.raise_for_status() raises HTTPError for the codes 400-599
raise_for_status(code) == 400 <= code /\ code < 600

WebhookInit ==
    /\ args \in Arguments
    /\ response \in Responses
    /\ wpc = "l22"
    /\ data = << >>
    /\ requests = << >>
    /\ ret = "None"

\* 22-24: without an endpoint a warning is logged and False returned
CheckEndpoint ==
    /\ wpc = "l22"
    /\ IF HasEndpoint(webhook_url)
       THEN /\ wpc' = "l27"
            /\ UNCHANGED ret
       ELSE /\ wpc' = "returned"
            /\ ret' = "False"
    /\ UNCHANGED <<args, response, data, requests>>
    /\ UNCHANGED <<mvars, rvars, pvars>>

\* 27-41
BuildData ==
    /\ wpc = "l27"
    /\ data' = Payload(args)
    /\ wpc' = "l43"
    /\ UNCHANGED <<args, response, requests, ret>>
    /\ UNCHANGED <<mvars, rvars, pvars>>

\* 43-50: one call of requests.post with the dictionary as the JSON body;
\* True unless the call or raise_for_status raised
Post ==
    /\ wpc = "l43"
    /\ requests' = Append(requests, data)
    /\ ret' = IF response.error \/ raise_for_status(response.code)
              THEN "False" ELSE "True"
    /\ wpc' = "returned"
    /\ UNCHANGED <<args, response, data>>
    /\ UNCHANGED <<mvars, rvars, pvars>>

NextWebhook ==
    \/ CheckEndpoint
    \/ BuildData
    \/ Post

InitWebhook ==
    /\ MonitorInit
    /\ webhook_url \in WebhookUrls
    /\ history_path = "history.json"
    /\ ReaderIdle
    /\ ProcessIdle
    /\ WebhookInit

SpecWebhook == InitWebhook /\ [][NextWebhook]_vars

\* ------------------------------------------------------------ the claims
\* the worker of session s has selected an entry and not yet returned
Selected(s) == pc[s] \in {"l103", "l121", "l118"} \cup PipelinePCs

\* the UTC instant an ISO-8601 text denotes: Z and a missing zone mean UTC
UtcInstant(text) == text.wall - (IF text.zone = "+01:00" THEN 1 ELSE 0)

\* C1: for every session completion_callback is invoked exactly once, on
\* every terminal path: never twice, and once by the time the worker ends.
C1_CompletionExactlyOnce ==
    \A s \in Sessions :
        /\ completions[s] <= 1
        /\ pc[s] = "done" => completions[s] = 1

\* C2: per session at most one artifact is run through the pipeline and at
\* most one webhook POST is made, under every interleaving of
\* start_monitoring and stop_monitoring with the worker.
C2_OnePipelineOnePost ==
    \A s \in Sessions : pipelines[s] <= 1 /\ posts[s] <= 1

\* C3: at most one polling worker is active at any time: a session that was
\* polling when start_monitoring was called again never scans the log
\* afterwards.
C3_OnePollingWorker ==
    /\ Cardinality({s \in Sessions : pc[s] \in PollingPCs}) <= 1
    /\ \A s \in Sessions : ~scansAfterSuperseded[s]

\* C4: after stop_monitoring was called on a polling session, its worker
\* starts no pipeline stage and no on_result.
C4_NoPipelineAfterStop ==
    \A s \in Sessions : stopped[s] => pc[s] \notin PipelinePCs

\* C5: on_result is invoked at most once per session, and never in a session
\* that ends by timeout.
C5_ResultAtMostOnce ==
    \A s \in Sessions :
        /\ results[s] <= 1
        /\ exitPath[s] = "timeout" => results[s] = 0

\* C6: a single session stopped before any qualifying event appeared in the
\* log ends with exactly one on_complete and no on_result.
C6_StopBeforeEvent ==
    \A s \in Sessions :
        stoppedEarly[s] =>
            /\ results[s] = 0
            /\ completions[s] <= 1
            /\ pc[s] = "done" => completions[s] = 1

C6_Witness ==
    \E s \in Sessions :
        /\ stoppedEarly[s] /\ pc[s] = "done" /\ exitPath[s] = "loop"
        /\ Qualifying(log, after_dt[s])
        /\ completions[s] = 1

\* C7: a session that ends with no qualifying event in the log and without
\* having been stopped ended by its timeout: the time limit had elapsed, the
\* timeout status is the last message, the flag is clear and on_complete
\* was called exactly once.
C7_Timeout ==
    \A s \in Sessions :
        (pc[s] = "done" /\ ~stopped[s] /\ ~Qualifying(log, after_dt[s])) =>
            /\ exitPath[s] = "timeout"
            /\ now - start_monitor_time[s] >= timeout_seconds[s]
            /\ lastStatus[s] = "Time limit reached"
            /\ ~monitoring_active
            /\ completions[s] = 1
            /\ results[s] = 0

C7_Witness ==
    \E s \in Sessions :
        /\ pc[s] = "done" /\ exitPath[s] = "timeout" /\ timeout_seconds[s] > 0
        /\ ~Qualifying(log, after_dt[s]) /\ Len(log) > 0
        /\ completions[s] = 1

\* C8: once a qualifying event has been found the worker performs no
\* further scan of the log.
C8_NoScanAfterFound ==
    \A s \in Sessions : ~scansAfterFound[s]

\* C9: a poll never selects an entry whose timestamp, normalized to UTC, is
\* at or before the reference time, whatever its extension.
C9_NeverSelectsOld ==
    \A s \in Sessions :
        Selected(s) =>
            UtcInstant(history[s][idx[s]].DateTime) > after_dt[s].wall - after_dt[s].off

C9_Witness ==
    \E s \in Sessions :
        /\ Selected(s)
        /\ \E i \in DOMAIN history[s] :
              /\ i > idx[s]
              /\ "DateTime" \in DOMAIN history[s][i]
              /\ HasValidExtension(history[s][i])
              /\ UtcInstant(history[s][i].DateTime) = after_dt[s].wall - after_dt[s].off

\* the entries obtained by parsing each object on its own
EachObjectParsed == [i \in DOMAIN objects |-> JsonLoadsObject(objects[i]).val]

\* the objects of the file are separated by exactly one line break
LineSeparated ==
    \A i \in DOMAIN separators : separators[i] \in {<<"\n">>, <<"\r", "\n">>}

RefInstant(s) == after_dt[s].wall - after_dt[s].off

\* the entry carries the three keys, is after the reference time of session
\* s and its file name has no allow-listed extension
NonMediaAfter(entry, s) ==
    /\ {"FilePath", "DateTime", "FileName"} \subseteq DOMAIN entry
    /\ UtcInstant(entry.DateTime) > RefInstant(s)
    /\ ~HasValidExtension(entry)

\* C11: when the scan of a poll comes to an entry after the reference time
\* whose file name has no allow-listed extension, the worker's step skips it
\* and goes on with the entry before it: the poll is not ended, the flag is
\* left alone, nothing is reported and on_complete is not called.
C11_SkipsNonMedia ==
    [][\A s \in Sessions :
          (/\ pc[s] = "l90" /\ idx[s] > 0 /\ monitoring_active
           /\ NonMediaAfter(history[s][idx[s]], s)
           /\ (pc'[s] # pc[s] \/ idx'[s] # idx[s]))
          => /\ pc'[s] = "l90"
             /\ idx'[s] = idx[s] - 1
             /\ history'[s] = history[s]
             /\ monitoring_active'
             /\ lastStatus'[s] = lastStatus[s]
             /\ completions'[s] = completions[s]]_vars

C11_Witness ==
    \E s \in Sessions :
        /\ Selected(s)
        /\ idx[s] = 1
        /\ Len(history[s]) = 2
        /\ NonMediaAfter(history[s][2], s)

\* C12: within one poll no entry is selected that stands earlier in the log
\* than an entry whose timestamp is at or before the reference time.
C12_StopsAtOld ==
    \A s \in Sessions :
        Selected(s) =>
            \A i \in (idx[s] + 1)..Len(history[s]) :
                {"FilePath", "DateTime"} \subseteq DOMAIN history[s][i]
                    => UtcInstant(history[s][i].DateTime) > RefInstant(s)

\* C13: an entry that lacks the FilePath, DateTime or FileName key is
\* skipped without an error being reported: no poll reports the missing key.
C13_MissingKeySkipped ==
    \A s \in Sessions : lastStatus[s] # "Error reading history: 'FileName'"

\* C14: a poll whose read or parse of the history file fails selects
\* nothing and ends nothing: the worker goes back to the while test with
\* monitoring_active, the callbacks' counts and the session's outcome as they
\* were; and every read that succeeds takes the whole file as it then is.
C14_ReadErrorKeepsPolling ==
    [][\A s \in Sessions :
          /\ (pc[s] = "l76" /\ pc'[s] \notin {"l76", "l90"})
             => /\ pc'[s] = "l36"
                /\ monitoring_active' = monitoring_active
                /\ completions'[s] = completions[s]
                /\ results'[s] = results[s]
                /\ pipelines'[s] = pipelines[s]
                /\ found'[s] = found[s]
                /\ exitPath'[s] = exitPath[s]
          /\ (pc[s] = "l76" /\ pc'[s] = "l90")
             => /\ history'[s] = log
                /\ idx'[s] = Len(log)]_vars

C14_Witness ==
    \E s \in Sessions :
        /\ pc[s] = "l36"
        /\ lastStatus[s] = "Error reading history"
        /\ monitoring_active
        /\ now - start_monitor_time[s] < timeout_seconds[s]
        /\ Qualifying(log, after_dt[s])

\* C15: the entry a poll selects is the qualifying entry that stands last in
\* the history it read, and a session runs the pipeline on one entry only.
C15_NewestQualifyingWins ==
    \A s \in Sessions :
        /\ pipelines[s] <= 1
        /\ Selected(s) =>
              /\ Selects(history[s][idx[s]], after_dt[s])
              /\ \A i \in (idx[s] + 1)..Len(history[s]) :
                     ~Selects(history[s][i], after_dt[s])

C15_Witness ==
    \E s \in Sessions :
        /\ pc[s] \in PipelinePCs
        /\ idx[s] = 2
        /\ Selects(history[s][1], after_dt[s])
        /\ history[s][1] # history[s][2]

\* C16: no worker thread runs for a session started with no history path,
\* no webhook endpoint or a non-positive timeout.
C16_PreconditionsChecked ==
    \A s \in Sessions :
        pc[s] # "idle" =>
            /\ history_path # ""
            /\ webhook_url # ""
            /\ timeout_seconds[s] > 0

\* the five failure classes of the claim
FailureClass(f) ==
    CASE f = "extraction" -> "extraction"
      [] f \in {"transcription output missing", "transcription raised"} -> "transcription"
      [] f = "delivery" -> "delivery"
      [] f = "file not found" -> "file not found"
      [] f = "timeout" -> "timeout"
      [] OTHER -> ""

\* the failure class a status message names, "" when it names none
ClassNamedBy(message) ==
    CASE message \in {"Audio extraction failed", "Failed to extract audio"} -> "extraction"
      [] message \in {"Transcription output not found", "Local transcription failed"}
             -> "transcription"
      [] message = "File not found" -> "file not found"
      [] message = "Time limit reached" -> "timeout"
      [] OTHER -> ""

\* C17: a session that failed in one of the five classes and has called
\* on_complete has been given a status message that names that class.
C17_FailureIdentified ==
    \A s \in Sessions :
        (completions[s] >= 1 /\ FailureClass(failure[s]) # "") =>
            \E m \in errors[s] : ClassNamedBy(m) = FailureClass(failure[s])

\* C18: when the speech engine wrote no output file, no webhook call is
\* made, on_result is not invoked, and "Transcription output not found" is
\* the last status message of the session when on_complete has been called.
C18_OutputMissing ==
    \A s \in Sessions :
        (failure[s] = "transcription output missing" /\ completions[s] >= 1) =>
            /\ posts[s] = 0
            /\ results[s] = 0
            /\ lastStatus[s] = "Transcription output not found"

\* C19: when process_file has returned, the temporary audio file does not
\* exist.
C19_TempFileRemoved ==
    ppc = "returned" => ~temp_exists

\* C20: extract_audio returns the path exactly when the transcoder exited
\* with code 0 and the output file exists; after a non-zero exit it returns
\* failure and the status message carries the transcoder's diagnostic text;
\* after exit code 0 without an output file it returns failure.
C20_ExtractResult ==
    ppc \notin {"off", "l101"} =>
        /\ audio_path # NoAudio <=> (run.launched /\ run.exit = 0 /\ run.output)
        /\ (run.launched /\ run.exit # 0) =>
              /\ audio_path = NoAudio
              /\ \E i \in DOMAIN statuses :
                     /\ statuses[i].text = "Audio extraction failed"
                     /\ statuses[i].detail = run.stderr
        /\ (run.launched /\ run.exit = 0 /\ ~run.output) => audio_path = NoAudio

C20_Witness ==
    /\ ppc = "returned"
    /\ run.launched /\ run.exit = 1 /\ run.output
    /\ run.stderr = "Invalid data found"
    /\ audio_path = NoAudio
    /\ result = NoTranscription

\* C21: when the webhook endpoint is unset, send_data returns False at once,
\* whatever its arguments are: no dictionary is built and requests.post is
\* never called.
C21_NoEndpointNoCall ==
    (wpc = "returned" /\ webhook_url = "") =>
        /\ ret = "False"
        /\ requests = << >>
        /\ data = << >>

C21_Witness ==
    /\ wpc = "returned"
    /\ webhook_url = ""
    /\ \A k \in OptionalKeys : args[k] = "given"
    /\ ret = "False"
    /\ requests = << >>

\* C22: with an endpoint configured, a call of send_data that has returned
\* made exactly one POST and returned a boolean, which is True if and only
\* if the POST was answered with a 2xx status.
C22_TrueIffSuccess ==
    (wpc = "returned" /\ webhook_url # "") =>
        /\ Len(requests) = 1
        /\ ret \in {"True", "False"}
        /\ ret = "True" <=>
              (~response.error /\ 200 <= response.code /\ response.code < 300)

\* C25: every body handed to requests.post holds notion_url and description
\* as they were passed, and each of transcription, drive_url,
\* local_file_path, result and reason if and only if the argument is not
\* None, with the value passed.
C25_BodyFields ==
    \A i \in DOMAIN requests :
        /\ RequiredKeys \subseteq DOMAIN requests[i]
        /\ \A k \in OptionalKeys : k \in DOMAIN requests[i] <=> args[k] # NoArgument
        /\ \A k \in DOMAIN requests[i] : requests[i][k] = args[k]

C25_Witness ==
    /\ Len(requests) = 1
    /\ args["transcription"] = ""
    /\ args["result"] = NoArgument
    /\ args["reason"] = "given"
    /\ DOMAIN requests[1] =
           {"notion_url", "description", "transcription", "drive_url", "local_file_path", "reason"}
    /\ requests[1]["notion_url"] = "https://notion/b"

\* C23: no failure of a stage leaves the worker as an exception: the worker
\* ends only at line 45 or line 67, and every stage that failed (transcoder,
\* speech engine, HTTP POST) has given a status message naming the failure.
C23_FailuresReported ==
    \A s \in Sessions :
        /\ exitPath[s] \in {"", "timeout", "loop"}
        /\ failure[s] \in {"extraction", "transcription raised",
                           "transcription output missing", "delivery"} =>
              \E m \in errors[s] : ClassNamedBy(m) = FailureClass(failure[s])

\* the worker is back in the loop of line 36, or past it
AfterPipeline == {"l36", "l67", "done"}

\* C24: a session whose pipeline was running when stop_monitoring was called
\* has, once the pipeline is over, called on_complete, and has made the POST
\* and called on_result exactly when transcription gave a transcript, as a
\* session that was not stopped does.
C24_StopDoesNotAbort ==
    \A s \in Sessions :
        (stoppedMid[s] /\ pc[s] \in AfterPipeline) =>
            /\ completions[s] >= 1
            /\ posts[s] = 1 <=> failure[s] \in {"", "delivery"}
            /\ results[s] = 1 <=> failure[s] \in {"", "delivery"}

C24_Witness ==
    \E s \in Sessions :
        /\ stoppedMid[s]
        /\ pc[s] = "done"
        /\ posts[s] = 1
        /\ results[s] = 1
        /\ completions[s] >= 1

\* the steps a worker takes from one pipeline position to the next
StageSteps ==
    {<<"p101", "p106">>, <<"p101", "l118">>, <<"p106", "l111">>, <<"p106", "l118">>,
     <<"l111", "l115">>, <<"l115", "l36">>}

\* C26: the stages run in the order extract, transcribe, deliver:
\* transcription starts only with the extracted file present, the POST is
\* made only with a transcript, a worker moves through the pipeline only by
\* the steps of StageSteps, and after a failed stage no POST is made and
\* on_result is not called.
C26_StageOrder ==
    /\ [](\A s \in Sessions :
            /\ pc[s] = "p106" => temp_audio[s]
            /\ pc[s] \in {"l111", "l115"} => transcription[s] \notin {NoTranscription, ""}
            /\ failure[s] \in {"extraction", "transcription raised",
                               "transcription output missing", "empty transcription"} =>
                  /\ pc[s] \notin {"p106", "l111", "l115"}
                  /\ posts[s] = 0
                  /\ results[s] = 0)
    /\ [][\A s \in Sessions :
             /\ (pc[s] \in PipelinePCs /\ pc'[s] # pc[s]) => <<pc[s], pc'[s]>> \in StageSteps
             /\ posts'[s] # posts[s] => pc[s] = "l111"]_vars

C26_Witness ==
    \E s \in Sessions :
        /\ pc[s] = "l115"
        /\ posts[s] = 1
        /\ transcription[s] = "transcript"
        /\ failure[s] = ""

\* C27: a worker at the while test with the flag set goes to the timeout
\* branch when the time limit has elapsed, and to the reader only when it
\* has not; the timeout branch ends the worker without reading the log,
\* selecting an entry or starting a pipeline.
C27_TimeoutBeforeScan ==
    [][\A s \in Sessions :
          /\ (pc[s] = "l36" /\ monitoring_active /\ pc'[s] # pc[s]) =>
                IF now - start_monitor_time[s] >= timeout_seconds[s]
                THEN pc'[s] = "l41"
                ELSE pc'[s] = "l76"
          /\ (pc[s] = "l41" /\ pc'[s] # pc[s]) =>
                /\ pc'[s] = "done"
                /\ exitPath'[s] = "timeout"
                /\ history'[s] = history[s]
                /\ found'[s] = found[s]
                /\ pipelines'[s] = pipelines[s]]_vars

C27_Witness ==
    \E s \in Sessions :
        /\ exitPath[s] = "timeout"
        /\ Qualifying(log, after_dt[s])
        /\ ~found[s]
        /\ pipelines[s] = 0
        /\ lastStatus[s] = "Time limit reached"

\* C29: after send_data the worker goes on to on_result and on_complete
\* with no status message, whatever send_data returned: a session whose
\* delivery failed has called on_result once and on_complete, and its last
\* status message is still "Transcription completed".
C29_DeliveryResultIgnored ==
    /\ [](\A s \in Sessions :
            (failure[s] = "delivery" /\ pc[s] \in AfterPipeline) =>
                /\ results[s] = 1
                /\ completions[s] >= 1
                /\ lastStatus[s] = "Transcription completed"
                /\ errors[s] = {})
    /\ [][\A s \in Sessions :
             /\ (pc[s] = "l111" /\ pc'[s] # pc[s]) =>
                   /\ pc'[s] = "l115"
                   /\ lastStatus'[s] = lastStatus[s]
             /\ (pc[s] = "l115" /\ pc'[s] # pc[s]) =>
                   /\ results'[s] = results[s] + 1
                   /\ completions'[s] = completions[s] + 1
                   /\ lastStatus'[s] = lastStatus[s]]_vars

C29_Witness ==
    \E s \in Sessions :
        /\ failure[s] = "delivery"
        /\ pc[s] = "done"
        /\ posts[s] = 1
        /\ results[s] = 1
        /\ lastStatus[s] = "Transcription completed"

\* C30: after a transcription that gave an empty transcript no POST is made
\* and on_result is not called, "File processing failed" follows
\* "Transcription completed", and the worker goes from transcription to
\* send_data exactly when the transcript is a non-empty string.
C30_EmptyTranscriptFails ==
    /\ [](\A s \in Sessions :
            failure[s] = "empty transcription" =>
                /\ posts[s] = 0
                /\ results[s] = 0
                /\ pc[s] = "l118" => lastStatus[s] = "Transcription completed"
                /\ pc[s] \in AfterPipeline => lastStatus[s] = "File processing failed")
    /\ [][\A s \in Sessions :
             /\ (pc[s] = "p106" /\ pc'[s] # pc[s]) =>
                   (pc'[s] = "l111" <=> transcription'[s] \notin {NoTranscription, ""})
             /\ (pc[s] = "l118" /\ pc'[s] # pc[s]) =>
                   lastStatus'[s] = "File processing failed"]_vars

C30_Witness ==
    \E s \in Sessions :
        /\ failure[s] = "empty transcription"
        /\ pc[s] = "done"
        /\ lastStatus[s] = "File processing failed"
        /\ posts[s] = 0
        /\ results[s] = 0
        /\ completions[s] >= 1

\* the last instant of the clock
Horizon == 1 + MaxTicks * TickSeconds

\* C28: every started session whose time limit ends within the run of the
\* clock eventually has its worker thread at its end with on_complete
\* called, whatever calls of start_monitoring and stop_monitoring follow.
C28_EverySessionCompletes ==
    \A s \in Sessions :
        (pc[s] # "idle" /\ start_monitor_time[s] + timeout_seconds[s] <= Horizon)
            ~> (pc[s] = "done" /\ completions[s] >= 1)

====
